---- MODULE Spec2Model ----
(***************************************************************************)
(* brynet HTTP message formatters: HttpQueryParameter, HttpRequest and     *)
(* HttpResponse of include/brynet/net/http/HttpFormat.hpp.                 *)
(*                                                                         *)
(* A std::string is a sequence of one-character strings, so that the       *)
(* serialized message is a sequence of bytes that can be cut into lines.   *)
(* A std::map<std::string, std::string> is the sequence of its (key,       *)
(* value) entries in iteration order, ascending by std::less<std::string>. *)
(***************************************************************************)
EXTENDS Integers, Sequences, FiniteSets, TLC

\* ------------------------------------------------------------------ bounds
\* The number of HttpQueryParameter::add calls explored.
MaxAdds == 3
\* The number of distinct header values the callers pass.
NumVals == 2
\* The byte length of the longest body the callers pass.
MaxBodyLen == 12

VARIABLES
    live,          \* the object the caller is driving: "query", "request", "response"
    ndebug,        \* the build: TRUE when NDEBUG compiles assert() out
    aborted,       \* an assert() failed and the process was aborted
    mParameter,    \* HttpQueryParameter::mParameter
    req,           \* the HttpRequest: mUrl, mQuery, mBody, mMethod, mHeadField
    rsp,           \* the HttpResponse: mStatus, mHeadField, mBody
    twin,          \* a second message object, constructed like the live one
    ret,           \* what the last getResult() returned, if no setter ran since
    fresh,         \* no setter has been called since construction
    isKeepAlive,   \* the isKeepAlive argument the HttpResponse was constructed with
    calls,         \* the (k, v) arguments of the add() calls made so far (on a
                   \* message: of the addHeadValue calls SpecOrder makes)
    twinCalls      \* the (field, value) arguments of the twin's addHeadValue calls

vars == <<live, ndebug, aborted, mParameter, req, rsp, twin, ret, fresh,
          isKeepAlive, calls, twinCalls>>

\* ----------------------------------------------------------------- strings
CRLF == <<"\r","\n">>

\* The printable ASCII characters in code order: 32 (space) to 95 (_), and
\* 97 (a) to 126 (~).
AsciiLow == <<" ","!","\"","#","$","%","&","'","(",")","*","+",",","-",".","/","0","1","2","3","4","5","6","7","8","9",":",";","<","=",">","?","@","A","B","C","D","E","F","G","H","I","J","K","L","M","N","O","P","Q","R","S","T","U","V","W","X","Y","Z","[","\\","]","^","_">>
AsciiHigh == <<"a","b","c","d","e","f","g","h","i","j","k","l","m","n","o","p","q","r","s","t","u","v","w","x","y","z","{","|","}","~">>

\* The byte value std::char_traits<char>::lt compares.
CharCode ==
    [c \in {"\n", "\r"} |-> IF c = "\n" THEN 10 ELSE 13]
    @@ [c \in {AsciiLow[i] : i \in DOMAIN AsciiLow} |->
           31 + (CHOOSE i \in DOMAIN AsciiLow : AsciiLow[i] = c)]
    @@ [c \in {AsciiHigh[i] : i \in DOMAIN AsciiHigh} |->
           96 + (CHOOSE i \in DOMAIN AsciiHigh : AsciiHigh[i] = c)]

\* std::string's operator<, which std::less<std::string> uses: the bytes of
\* the common length are compared (traits::compare), the first difference
\* decides, and without one the shorter string is the smaller.
StringLess(a, b) ==
    LET n    == IF Len(a) < Len(b) THEN Len(a) ELSE Len(b)
        diff == {i \in 1..n : a[i] # b[i]}
    IN  IF diff # {}
        THEN LET d == CHOOSE i \in diff : \A j \in diff : i <= j
             IN  CharCode[a[d]] < CharCode[b[d]]
        ELSE Len(a) < Len(b)

Digits == <<"0","1","2","3","4","5","6","7","8","9">>

\* std::to_string of a non-negative value: its decimal digits, no leading zero.
RECURSIVE ToStringNat(_)
ToStringNat(n) ==
    IF n < 10 THEN <<Digits[n + 1]>>
    ELSE ToStringNat(n \div 10) \o <<Digits[(n % 10) + 1]>>

\* The digits of a negative int, computed without negating it (INT_MIN has no
\* positive counterpart).
RECURSIVE NegDigits(_)
NegDigits(x) ==
    IF x = 0 THEN <<>>
    ELSE LET d == (10 - (x % 10)) % 10
         IN  NegDigits((x + d) \div 10) \o <<Digits[d + 1]>>

\* std::to_string(int).
ToStringInt(x) == IF x < 0 THEN <<"-">> \o NegDigits(x) ELSE ToStringNat(x)

\* -------------------------------------------------------- std::map<string,string>
\* The entry of the map equivalent to key k (neither less than the other).
MapFind(m, k) ==
    {i \in DOMAIN m : ~StringLess(m[i][1], k) /\ ~StringLess(k, m[i][1])}

\* Inserts at the end instead of at the key's place in the order.
MapAssign_Unsorted(m, k, v) ==
    IF MapFind(m, k) # {}
    THEN [i \in DOMAIN m |-> IF i \in MapFind(m, k) THEN <<m[i][1], v>> ELSE m[i]]
    ELSE Append(m, <<k, v>>)

\* Adds an entry for a key that is already present (std::multimap::insert).
MapAssign_Multi(m, k, v) ==
    LET n == Cardinality({i \in DOMAIN m : ~StringLess(k, m[i][1])})
    IN  SubSeq(m, 1, n) \o <<<<k, v>>>> \o SubSeq(m, n + 1, Len(m))

\* Keeps the value of a key that is already present (std::map::insert).
MapAssign_KeepFirst(m, k, v) ==
    IF MapFind(m, k) # {}
    THEN m
    ELSE LET n == Cardinality({i \in DOMAIN m : StringLess(m[i][1], k)})
         IN  SubSeq(m, 1, n) \o <<<<k, v>>>> \o SubSeq(m, n + 1, Len(m))

\* m[k] = v: the entry for k is overwritten when there is one, and otherwise
\* a new entry is inserted after every smaller key.
MapAssign(m, k, v) ==
    IF MapFind(m, k) # {}
    THEN [i \in DOMAIN m |-> IF i \in MapFind(m, k) THEN <<m[i][1], v>> ELSE m[i]]
    ELSE LET n == Cardinality({i \in DOMAIN m : StringLess(m[i][1], k)})
         IN  SubSeq(m, 1, n) \o <<<<k, v>>>> \o SubSeq(m, n + 1, Len(m))

\* for (auto& v : mHeadField) ret += v.first + ": " + v.second + "\r\n";
\* the lines of the entries from the i-th on.
RECURSIVE HeadFieldLinesFrom(_, _)
HeadFieldLinesFrom(m, i) ==
    IF i > Len(m) THEN <<>>
    ELSE m[i][1] \o <<":"," ">> \o m[i][2] \o CRLF \o HeadFieldLinesFrom(m, i + 1)

HeadFieldLines(m) == HeadFieldLinesFrom(m, 1)

\* ------------------------------------------------------- HttpQueryParameter
\* Appends "&" before every pair, the first included.
HttpQueryParameter_add_AlwaysAmp(p, k, v) == p \o <<"&">> \o k \o <<"=">> \o v

HttpQueryParameter_add(p, k, v) ==
    (IF p # <<>> THEN p \o <<"&">> ELSE p) \o k \o <<"=">> \o v

HttpQueryParameter_getResult(p) == p

\* -------------------------------------------------------------- HttpRequest
HTTP_METHOD_HEAD == 0
HTTP_METHOD_GET == 1
HTTP_METHOD_POST == 2
HTTP_METHOD_PUT == 3
HTTP_METHOD_DELETE == 4
HTTP_METHOD_MAX == 5

HttpMethodString == <<<<"H","E","A","D">>, <<"G","E","T">>, <<"P","O","S","T">>, <<"P","U","T">>, <<"D","E","L","E","T","E">>>>

\* The condition of setMethod's assert.
SetMethodAssert(m) == m > HTTP_METHOD_HEAD /\ m < HTTP_METHOD_MAX

HttpRequest_setMethod(r, protocol) == [r EXCEPT !.mMethod = protocol]

\* HttpRequest(): the strings and the map default-construct empty, and the
\* body of the constructor sets the method.
HttpRequest_new ==
    HttpRequest_setMethod(
        [mUrl |-> <<>>, mQuery |-> <<>>, mBody |-> <<>>,
         mMethod |-> HTTP_METHOD_MAX, mHeadField |-> <<>>],
        HTTP_METHOD_GET)

HttpRequest_addHeadValue(r, field, value) ==
    [r EXCEPT !.mHeadField = MapAssign(@, field, value)]

HttpRequest_setHost(r, host) == HttpRequest_addHeadValue(r, <<"H","o","s","t">>, host)

HttpRequest_setUrl(r, url) == [r EXCEPT !.mUrl = url]

HttpRequest_setCookie(r, v) == HttpRequest_addHeadValue(r, <<"C","o","o","k","i","e">>, v)

HttpRequest_setContentType(r, v) ==
    HttpRequest_addHeadValue(r, <<"C","o","n","t","e","n","t","-","T","y","p","e">>, v)

HttpRequest_setQuery(r, query) == [r EXCEPT !.mQuery = query]

\* Stores the body and leaves the headers alone.
HttpRequest_setBody_NoLength(r, body) == [r EXCEPT !.mBody = body]

HttpRequest_setBody(r, body) ==
    [HttpRequest_addHeadValue(r, <<"C","o","n","t","e","n","t","-","L","e","n","g","t","h">>, ToStringNat(Len(body)))
        EXCEPT !.mBody = body]

\* Emits "?" whether or not there is a query.
HttpRequest_getResult_AlwaysMark(r) ==
    (IF r.mMethod >= HTTP_METHOD_HEAD /\ r.mMethod < HTTP_METHOD_MAX
     THEN HttpMethodString[r.mMethod + 1] ELSE <<>>)
    \o <<" ">> \o r.mUrl \o <<"?">> \o r.mQuery
    \o <<" ","H","T","T","P","/","1",".","1","\r","\n">> \o HeadFieldLines(r.mHeadField) \o CRLF
    \o (IF r.mBody # <<>> THEN r.mBody ELSE <<>>)

HttpRequest_getResult(r) ==
    (IF r.mMethod >= HTTP_METHOD_HEAD /\ r.mMethod < HTTP_METHOD_MAX
     THEN HttpMethodString[r.mMethod + 1] ELSE <<>>)
    \o <<" ">> \o r.mUrl
    \o (IF r.mQuery # <<>> THEN <<"?">> \o r.mQuery ELSE <<>>)
    \o <<" ","H","T","T","P","/","1",".","1","\r","\n">> \o HeadFieldLines(r.mHeadField) \o CRLF
    \o (IF r.mBody # <<>> THEN r.mBody ELSE <<>>)

\* ------------------------------------------------------------- HttpResponse
\* enum class status : unsigned. An unsigned value is kept as two 16-bit
\* limbs, [hi, lo] for hi * 2^16 + lo, so that every value of the 32-bit type
\* is covered by integers no larger than 2^31 - 1.
Limb == 2^16

Unsigned(n) == [hi |-> n \div Limb, lo |-> n % Limb]

status_ok == Unsigned(200)

\* static_cast<int> of an unsigned value: the value itself up to INT_MAX, and
\* the value minus 2^32 above it (two's complement, the conversion every
\* mainstream build performs and C++20 requires).
StaticCastInt(u) ==
    IF u.hi < Limb \div 2
    THEN u.hi * Limb + u.lo
    ELSE (u.hi - Limb) * Limb + u.lo

HttpResponse_toStatusString(r) ==
    LET c == IF r.mStatus.hi = 0 THEN r.mStatus.lo ELSE -1
    IN
        CASE
          c = 100 -> <<"C","o","n","t","i","n","u","e">>
        []  c = 101 -> <<"S","w","i","t","c","h","i","n","g"," ","P","r","o","t","o","c","o","l","s">>
        []  c = 102 -> <<"P","r","o","c","e","s","s","i","n","g">>
        []  c = 200 -> <<"O","K">>
        []  c = 201 -> <<"C","r","e","a","t","e","d">>
        []  c = 202 -> <<"A","c","c","e","p","t","e","d">>
        []  c = 203 -> <<"N","o","n","-","A","u","t","h","o","r","i","t","a","t","i","v","e"," ","I","n","f","o","r","m","a","t","i","o","n">>
        []  c = 204 -> <<"N","o"," ","C","o","n","t","e","n","t">>
        []  c = 205 -> <<"R","e","s","e","t"," ","C","o","n","t","e","n","t">>
        []  c = 206 -> <<"P","a","r","t","i","a","l"," ","C","o","n","t","e","n","t">>
        []  c = 207 -> <<"M","u","l","t","i","-","S","t","a","t","u","s">>
        []  c = 208 -> <<"A","l","r","e","a","d","y"," ","R","e","p","o","r","t","e","d">>
        []  c = 226 -> <<"I","M"," ","U","s","e","d">>
        []  c = 300 -> <<"M","u","l","t","i","p","l","e"," ","C","h","o","i","c","e","s">>
        []  c = 301 -> <<"M","o","v","e","d"," ","P","e","r","m","a","n","e","n","t","l","y">>
        []  c = 302 -> <<"F","o","u","n","d">>
        []  c = 303 -> <<"S","e","e"," ","O","t","h","e","r">>
        []  c = 304 -> <<"N","o","t"," ","M","o","d","i","f","i","e","d">>
        []  c = 305 -> <<"U","s","e"," ","P","r","o","x","y">>
        []  c = 307 -> <<"T","e","m","p","o","r","a","r","y"," ","R","e","d","i","r","e","c","t">>
        []  c = 308 -> <<"P","e","r","m","a","n","e","n","t"," ","R","e","d","i","r","e","c","t">>
        []  c = 400 -> <<"B","a","d"," ","R","e","q","u","e","s","t">>
        []  c = 401 -> <<"U","n","a","u","t","h","o","r","i","z","e","d">>
        []  c = 402 -> <<"P","a","y","m","e","n","t"," ","R","e","q","u","i","r","e","d">>
        []  c = 403 -> <<"F","o","r","b","i","d","d","e","n">>
        []  c = 404 -> <<"N","o","t"," ","F","o","u","n","d">>
        []  c = 405 -> <<"M","e","t","h","o","d"," ","N","o","t"," ","A","l","l","o","w","e","d">>
        []  c = 406 -> <<"N","o","t"," ","A","c","c","e","p","t","a","b","l","e">>
        []  c = 407 -> <<"P","r","o","x","y"," ","A","u","t","h","e","n","t","i","c","a","t","i","o","n"," ","R","e","q","u","i","r","e","d">>
        []  c = 408 -> <<"R","e","q","u","e","s","t"," ","T","i","m","e","o","u","t">>
        []  c = 409 -> <<"C","o","n","f","l","i","c","t">>
        []  c = 410 -> <<"G","o","n","e">>
        []  c = 411 -> <<"L","e","n","g","t","h"," ","R","e","q","u","i","r","e","d">>
        []  c = 412 -> <<"P","r","e","c","o","n","d","i","t","i","o","n"," ","F","a","i","l","e","d">>
        []  c = 413 -> <<"P","a","y","l","o","a","d"," ","T","o","o"," ","L","a","r","g","e">>
        []  c = 414 -> <<"U","R","I"," ","T","o","o"," ","L","o","n","g">>
        []  c = 415 -> <<"U","n","s","u","p","p","o","r","t","e","d"," ","M","e","d","i","a"," ","T","y","p","e">>
        []  c = 416 -> <<"R","a","n","g","e"," ","N","o","t"," ","S","a","t","i","s","f","i","a","b","l","e">>
        []  c = 417 -> <<"E","x","p","e","c","t","a","t","i","o","n"," ","F","a","i","l","e","d">>
        []  c = 421 -> <<"M","i","s","d","i","r","e","c","t","e","d"," ","R","e","q","u","e","s","t">>
        []  c = 422 -> <<"U","n","p","r","o","c","e","s","s","a","b","l","e"," ","E","n","t","i","t","y">>
        []  c = 423 -> <<"L","o","c","k","e","d">>
        []  c = 424 -> <<"F","a","i","l","e","d"," ","D","e","p","e","n","d","e","n","c","y">>
        []  c = 426 -> <<"U","p","g","r","a","d","e"," ","R","e","q","u","i","r","e","d">>
        []  c = 428 -> <<"P","r","e","c","o","n","d","i","t","i","o","n"," ","R","e","q","u","i","r","e","d">>
        []  c = 429 -> <<"T","o","o"," ","M","a","n","y"," ","R","e","q","u","e","s","t","s">>
        []  c = 431 -> <<"R","e","q","u","e","s","t"," ","H","e","a","d","e","r"," ","F","i","e","l","d","s"," ","T","o","o"," ","L","a","r","g","e">>
        []  c = 444 -> <<"C","o","n","n","e","c","t","i","o","n"," ","C","l","o","s","e","d"," ","W","i","t","h","o","u","t"," ","R","e","s","p","o","n","s","e">>
        []  c = 451 -> <<"U","n","a","v","a","i","l","a","b","l","e"," ","F","o","r"," ","L","e","g","a","l"," ","R","e","a","s","o","n","s">>
        []  c = 499 -> <<"C","l","i","e","n","t"," ","C","l","o","s","e","d"," ","R","e","q","u","e","s","t">>
        []  c = 500 -> <<"I","n","t","e","r","n","a","l"," ","S","e","r","v","e","r"," ","E","r","r","o","r">>
        []  c = 501 -> <<"N","o","t"," ","I","m","p","l","e","m","e","n","t","e","d">>
        []  c = 502 -> <<"B","a","d"," ","G","a","t","e","w","a","y">>
        []  c = 503 -> <<"S","e","r","v","i","c","e"," ","U","n","a","v","a","i","l","a","b","l","e">>
        []  c = 504 -> <<"G","a","t","e","w","a","y"," ","T","i","m","e","o","u","t">>
        []  c = 505 -> <<"H","T","T","P"," ","V","e","r","s","i","o","n"," ","N","o","t"," ","S","u","p","p","o","r","t","e","d">>
        []  c = 506 -> <<"V","a","r","i","a","n","t"," ","A","l","s","o"," ","N","e","g","o","t","i","a","t","e","s">>
        []  c = 507 -> <<"I","n","s","u","f","f","i","c","i","e","n","t"," ","S","t","o","r","a","g","e">>
        []  c = 508 -> <<"L","o","o","p"," ","D","e","t","e","c","t","e","d">>
        []  c = 510 -> <<"N","o","t"," ","E","x","t","e","n","d","e","d">>
        []  c = 511 -> <<"N","e","t","w","o","r","k"," ","A","u","t","h","e","n","t","i","c","a","t","i","o","n"," ","R","e","q","u","i","r","e","d">>
        []  c = 599 -> <<"N","e","t","w","o","r","k"," ","C","o","n","n","e","c","t"," ","T","i","m","e","o","u","t"," ","E","r","r","o","r">>
        [] OTHER -> <<"<","u","n","k","n","o","w","n","-","s","t","a","t","u","s",">">>

\* The codes toStatusString has a case for.
StatusCodes ==
    {100, 101, 102, 200, 201, 202, 203, 204, 205, 206, 207, 208,
     226, 300, 301, 302, 303, 304, 305, 307, 308, 400, 401, 402,
     403, 404, 405, 406, 407, 408, 409, 410, 411, 412, 413, 414,
     415, 416, 417, 421, 422, 423, 424, 426, 428, 429, 431, 444,
     451, 499, 500, 501, 502, 503, 504, 505, 506, 507, 508, 510,
     511, 599}

HttpResponse_addHeadValue(r, field, value) ==
    [r EXCEPT !.mHeadField = MapAssign(@, field, value)]

\* Sets "Close" for a keep-alive response and "Keep-Alive" otherwise.
HttpResponse_new_Swapped(state, keepAlive) ==
    HttpResponse_addHeadValue(
        [mStatus |-> state, mHeadField |-> <<>>, mBody |-> <<>>],
        <<"C","o","n","n","e","c","t","i","o","n">>, IF keepAlive THEN <<"C","l","o","s","e">> ELSE <<"K","e","e","p","-","A","l","i","v","e">>)

\* HttpResponse(state, isKeepAlive).
HttpResponse_new(state, keepAlive) ==
    IF keepAlive
    THEN HttpResponse_addHeadValue(
             [mStatus |-> state, mHeadField |-> <<>>, mBody |-> <<>>],
             <<"C","o","n","n","e","c","t","i","o","n">>, <<"K","e","e","p","-","A","l","i","v","e">>)
    ELSE HttpResponse_addHeadValue(
             [mStatus |-> state, mHeadField |-> <<>>, mBody |-> <<>>],
             <<"C","o","n","n","e","c","t","i","o","n">>, <<"C","l","o","s","e">>)

HttpResponse_setStatus(r, status) == [r EXCEPT !.mStatus = status]

HttpResponse_setContentType(r, v) ==
    HttpResponse_addHeadValue(r, <<"C","o","n","t","e","n","t","-","T","y","p","e">>, v)

HttpResponse_setBody(r, body) ==
    [HttpResponse_addHeadValue(r, <<"C","o","n","t","e","n","t","-","L","e","n","g","t","h">>, ToStringNat(Len(body)))
        EXCEPT !.mBody = body]

HttpResponse_getResult(r) ==
    <<"H","T","T","P","/","1",".","1"," ">> \o ToStringInt(StaticCastInt(r.mStatus)) \o <<" ">>
    \o HttpResponse_toStatusString(r) \o CRLF
    \o HeadFieldLines(r.mHeadField) \o CRLF
    \o (IF r.mBody # <<>> THEN r.mBody ELSE <<>>)

\* ------------------------------------------------------ the callers' inputs
\* Header values: "v1", "v2", ...
Val(i) == <<"v">> \o ToStringNat(i)
Vals == {Val(i) : i \in 1..NumVals}

\* What setCookie and setContentType are called with.
Cookies == {<<"s","i","d","=","1">>}
ContentTypes == {<<"t","e","x","t","/","p","l","a","i","n">>}

\* Query keys and values, the empty string among them.
QueryKeys == {<<>>, <<"a">>, <<"b">>}
QueryVals == {<<>>, <<"1">>, <<"2">>}

Methods == HTTP_METHOD_HEAD..HTTP_METHOD_MAX
Urls == {<<>>, <<"/","p">>}
Queries == {<<>>, <<"a","=","1","&","b","=","2">>}

\* A body of MaxBodyLen bytes that itself holds a blank line.
LongBody == [i \in 1..MaxBodyLen |-> IF i \in {1, 3} THEN "\r"
                                     ELSE IF i \in {2, 4} THEN "\n" ELSE "x"]
Bodies == {<<>>, <<"h","i">>, LongBody}

\* The fields passed to addHeadValue.
ReqFields == {<<"C","o","n","t","e","n","t","-","L","e","n","g","t","h">>, <<"H","o","s","t">>}
RspFields == {<<"C","o","n","n","e","c","t","i","o","n">>, <<"C","o","n","t","e","n","t","-","L","e","n","g","t","h">>}
\* The fields added in two orders to a message and its twin.
OrderFields == {<<"H","o","s","t">>, <<"H","o">>, <<"a">>}
OrderVals == {<<"x">>, <<"y">>}

\* Status values: two of the table, and values outside it up to UINT_MAX.
Statuses ==
    {Unsigned(200), Unsigned(404), Unsigned(0), Unsigned(999),
     [hi |-> Limb \div 2 - 1, lo |-> Limb - 1],
     [hi |-> Limb \div 2, lo |-> 0],
     [hi |-> Limb - 1, lo |-> Limb - 1]}

NoResult == [has |-> FALSE, str |-> <<>>]
Returned(str) == [has |-> TRUE, str |-> str]

\* -------------------------------------------------------------------- Init
InitQuery ==
    /\ live = "query"
    /\ ndebug = FALSE
    /\ aborted = FALSE
    /\ mParameter = <<>>
    /\ req = HttpRequest_new
    /\ rsp = HttpResponse_new(status_ok, TRUE)
    /\ twin = HttpRequest_new
    /\ ret = NoResult
    /\ fresh = TRUE
    /\ isKeepAlive = TRUE
    /\ calls = <<>>
    /\ twinCalls = <<>>

InitRequest ==
    /\ live = "request"
    /\ ndebug \in BOOLEAN
    /\ aborted = FALSE
    /\ mParameter = <<>>
    /\ req = HttpRequest_new
    /\ rsp = HttpResponse_new(status_ok, TRUE)
    /\ twin = HttpRequest_new
    /\ ret = NoResult
    /\ fresh = TRUE
    /\ isKeepAlive = TRUE
    /\ calls = <<>>
    /\ twinCalls = <<>>

InitResponse ==
    /\ live = "response"
    /\ ndebug = FALSE
    /\ aborted = FALSE
    /\ mParameter = <<>>
    /\ req = HttpRequest_new
    /\ isKeepAlive \in BOOLEAN
    /\ \E state \in Statuses :
          /\ rsp = HttpResponse_new(state, isKeepAlive)
          /\ twin = HttpResponse_new(state, isKeepAlive)
    /\ ret = NoResult
    /\ fresh = TRUE
    /\ calls = <<>>
    /\ twinCalls = <<>>

Init == InitQuery \/ InitRequest \/ InitResponse

\* ------------------------------------------------------ HttpQueryParameter
QAdd(k, v) ==
    /\ live = "query"
    /\ Len(calls) < MaxAdds
    /\ mParameter' = HttpQueryParameter_add(mParameter, k, v)
    /\ calls' = Append(calls, <<k, v>>)
    /\ ret' = NoResult
    /\ fresh' = FALSE
    /\ UNCHANGED <<live, ndebug, aborted, req, rsp, twin, isKeepAlive,
                   twinCalls>>

QGetResult ==
    /\ live = "query"
    /\ ret' = Returned(HttpQueryParameter_getResult(mParameter))
    /\ UNCHANGED <<live, ndebug, aborted, mParameter, req, rsp, twin, fresh,
                   isKeepAlive, calls, twinCalls>>

NextQuery ==
    \/ \E k \in QueryKeys, v \in QueryVals : QAdd(k, v)
    \/ QGetResult

\* -------------------------------------------------------------- HttpRequest
\* A setter of the request that cannot fail: the request becomes r.
ReqSet(r) ==
    /\ live = "request"
    /\ ~aborted
    /\ req' = r
    /\ ret' = NoResult
    /\ fresh' = FALSE
    /\ UNCHANGED <<live, ndebug, aborted, mParameter, rsp, twin, isKeepAlive,
                   calls, twinCalls>>

\* The method is stored first; the assert then aborts a build that keeps it.
ReqSetMethod(m) ==
    /\ live = "request"
    /\ ~aborted
    /\ req' = HttpRequest_setMethod(req, m)
    /\ aborted' = (~ndebug /\ ~SetMethodAssert(m))
    /\ ret' = NoResult
    /\ fresh' = FALSE
    /\ UNCHANGED <<live, ndebug, mParameter, rsp, twin, isKeepAlive, calls, twinCalls>>

ReqSetHost(host) == ReqSet(HttpRequest_setHost(req, host))

ReqSetUrl(url) == ReqSet(HttpRequest_setUrl(req, url))

ReqSetCookie(v) == ReqSet(HttpRequest_setCookie(req, v))

ReqSetContentType(v) == ReqSet(HttpRequest_setContentType(req, v))

ReqSetQuery(query) == ReqSet(HttpRequest_setQuery(req, query))

\* setBody(const std::string&).
ReqSetBody(body) == ReqSet(HttpRequest_setBody(req, body))

\* setBody(std::string&&): the same header, the body moved in.
ReqSetBodyMove(body) == ReqSet(HttpRequest_setBody(req, body))

ReqAddHeadValue(field, value) ==
    ReqSet(HttpRequest_addHeadValue(req, field, value))

\* Moves the body out while serializing.
ReqGetResult_MovesBody ==
    /\ live = "request"
    /\ ~aborted
    /\ ret' = Returned(HttpRequest_getResult(req))
    /\ req' = [req EXCEPT !.mBody = <<>>]
    /\ UNCHANGED <<live, ndebug, aborted, mParameter, rsp, twin, fresh,
                   isKeepAlive, calls, twinCalls>>

ReqGetResult ==
    /\ live = "request"
    /\ ~aborted
    /\ ret' = Returned(HttpRequest_getResult(req))
    /\ UNCHANGED <<live, ndebug, aborted, mParameter, req, rsp, twin, fresh,
                   isKeepAlive, calls, twinCalls>>

NextRequest ==
    \/ \E m \in Methods : ReqSetMethod(m)
    \/ \E host \in Vals : ReqSetHost(host)
    \/ \E url \in Urls : ReqSetUrl(url)
    \/ \E v \in Cookies : ReqSetCookie(v)
    \/ \E v \in ContentTypes : ReqSetContentType(v)
    \/ \E query \in Queries : ReqSetQuery(query)
    \/ \E body \in Bodies : ReqSetBody(body)
    \/ \E body \in Bodies : ReqSetBodyMove(body)
    \/ \E field \in ReqFields, value \in Vals : ReqAddHeadValue(field, value)
    \/ ReqGetResult

\* ------------------------------------------------------------- HttpResponse
RspSet(r) ==
    /\ live = "response"
    /\ rsp' = r
    /\ ret' = NoResult
    /\ fresh' = FALSE
    /\ UNCHANGED <<live, ndebug, aborted, mParameter, req, twin, isKeepAlive,
                   calls, twinCalls>>

RspSetStatus(status) == RspSet(HttpResponse_setStatus(rsp, status))

RspSetContentType(v) == RspSet(HttpResponse_setContentType(rsp, v))

RspAddHeadValue(field, value) ==
    RspSet(HttpResponse_addHeadValue(rsp, field, value))

\* setBody(const std::string&).
RspSetBody(body) == RspSet(HttpResponse_setBody(rsp, body))

\* setBody(std::string&&).
RspSetBodyMove(body) == RspSet(HttpResponse_setBody(rsp, body))

RspGetResult ==
    /\ live = "response"
    /\ ret' = Returned(HttpResponse_getResult(rsp))
    /\ UNCHANGED <<live, ndebug, aborted, mParameter, req, rsp, twin, fresh,
                   isKeepAlive, calls, twinCalls>>

NextResponse ==
    \/ \E status \in Statuses : RspSetStatus(status)
    \/ \E v \in ContentTypes : RspSetContentType(v)
    \/ \E field \in RspFields, value \in Vals : RspAddHeadValue(field, value)
    \/ \E body \in Bodies : RspSetBody(body)
    \/ \E body \in Bodies : RspSetBodyMove(body)
    \/ RspGetResult

\* ------------------------------------------- a message and its twin (order)
\* The message under test, whichever class it is.
Message == IF live = "request" THEN req ELSE rsp

MessageResult(m) ==
    IF live = "request" THEN HttpRequest_getResult(m)
    ELSE HttpResponse_getResult(m)

MessageAddHeadValue(m, field, value) ==
    IF live = "request" THEN HttpRequest_addHeadValue(m, field, value)
    ELSE HttpResponse_addHeadValue(m, field, value)

\* A request, or a response of status ok, and a twin built the same way.
InitOrder ==
    /\ live \in {"request", "response"}
    /\ ndebug = FALSE
    /\ aborted = FALSE
    /\ mParameter = <<>>
    /\ req = HttpRequest_new
    /\ isKeepAlive \in BOOLEAN
    /\ live = "request" => isKeepAlive
    /\ rsp = HttpResponse_new(status_ok, isKeepAlive)
    /\ twin = Message
    /\ ret = NoResult
    /\ fresh = TRUE
    /\ calls = <<>>
    /\ twinCalls = <<>>

\* addHeadValue on the message, with a field not passed to it before.
OrderAdd(field, value) ==
    /\ \A i \in DOMAIN calls : calls[i][1] # field
    /\ req' = IF live = "request"
              THEN HttpRequest_addHeadValue(req, field, value) ELSE req
    /\ rsp' = IF live = "response"
              THEN HttpResponse_addHeadValue(rsp, field, value) ELSE rsp
    /\ calls' = Append(calls, <<field, value>>)
    /\ ret' = NoResult
    /\ fresh' = FALSE
    /\ UNCHANGED <<live, ndebug, aborted, mParameter, twin, isKeepAlive,
                   twinCalls>>

\* addHeadValue on the twin, with a field not passed to it before.
TwinAdd(field, value) ==
    /\ \A i \in DOMAIN twinCalls : twinCalls[i][1] # field
    /\ twin' = MessageAddHeadValue(twin, field, value)
    /\ twinCalls' = Append(twinCalls, <<field, value>>)
    /\ UNCHANGED <<live, ndebug, aborted, mParameter, req, rsp, ret, fresh,
                   isKeepAlive, calls>>

NextOrder ==
    \/ \E field \in OrderFields, value \in OrderVals : OrderAdd(field, value)
    \/ \E field \in OrderFields, value \in OrderVals : TwinAdd(field, value)

\* ------------------------------------- callers that set headers and bodies
\* A request, or a response of status ok or not_found, built either way.
SomeStatuses == {Unsigned(200), Unsigned(404)}

InitMessages ==
    /\ live \in {"request", "response"}
    /\ ndebug = FALSE
    /\ aborted = FALSE
    /\ mParameter = <<>>
    /\ req = HttpRequest_new
    /\ isKeepAlive \in BOOLEAN
    /\ live = "request" => isKeepAlive
    /\ \E state \in SomeStatuses :
          /\ live = "request" => state = status_ok
          /\ rsp = HttpResponse_new(state, isKeepAlive)
    /\ twin = Message
    /\ ret = NoResult
    /\ fresh = TRUE
    /\ calls = <<>>
    /\ twinCalls = <<>>

\* Every header and body operation with all its inputs, and the other
\* setters with one input each.
NextMessages ==
    \/ ReqSetMethod(HTTP_METHOD_POST)
    \/ ReqSetUrl(<<"/","p">>)
    \/ ReqSetQuery(<<"a","=","1","&","b","=","2">>)
    \/ \E host \in Vals : ReqSetHost(host)
    \/ \E v \in Cookies : ReqSetCookie(v)
    \/ \E v \in ContentTypes : ReqSetContentType(v)
    \/ \E body \in Bodies : ReqSetBody(body)
    \/ \E body \in Bodies : ReqSetBodyMove(body)
    \/ \E field \in ReqFields, value \in Vals : ReqAddHeadValue(field, value)
    \/ ReqGetResult
    \/ \E status \in SomeStatuses : RspSetStatus(status)
    \/ \E v \in ContentTypes : RspSetContentType(v)
    \/ \E field \in RspFields, value \in Vals : RspAddHeadValue(field, value)
    \/ \E body \in Bodies : RspSetBody(body)
    \/ \E body \in Bodies : RspSetBodyMove(body)
    \/ RspGetResult

\* ----------------------------------------------------------- specifications
Next == NextQuery \/ NextRequest \/ NextResponse

\* The three builders, each driven by its own caller.
Spec == Init /\ [][Next]_vars

SpecQuery == InitQuery /\ [][NextQuery]_vars

SpecRequest == InitRequest /\ [][NextRequest]_vars

SpecResponse == InitResponse /\ [][NextResponse]_vars

SpecMessages == InitMessages /\ [][NextMessages]_vars

\* Two messages of one class, built alike, that receive addHeadValue calls
\* in orders of their own.
SpecOrder == InitOrder /\ [][NextOrder]_vars

\* ------------------------------------------------- reading a serialized message
\* The operators below bind their string argument once ({e : s \in {str}}), so
\* that it is computed once however often its bytes are read.
Pick(S) == CHOOSE x \in S : TRUE

Least(S) == CHOOSE i \in S : \A j \in S : i <= j

\* What a reader of the bytes sees: the places where pat occurs in str.
Occurrences(pat, str) ==
    UNION {{i \in 1..(Len(s) - Len(pat) + 1) :
               SubSeq(s, i, i + Len(pat) - 1) = pat} : s \in {str}}

\* The first place where pat occurs in str.
First(pat, str) == Pick({Least(occ) : occ \in {Occurrences(pat, str)}})

IsPrefix(p, str) ==
    \A s \in {str} : Len(p) <= Len(s) /\ SubSeq(s, 1, Len(p)) = p

\* The head of a message: the start line and the header lines, each with its
\* CRLF, up to the first blank line. The body is what follows the blank line.
HeadOf(str) == Pick({SubSeq(s, 1, First(CRLF \o CRLF, s) + 1) : s \in {str}})
BodyOf(str) == Pick({SubSeq(s, First(CRLF \o CRLF, s) + 4, Len(s)) : s \in {str}})

\* The lines of a head, without their CRLF.
LinesOf(str) ==
    Pick({LET end(k) == CHOOSE e \in ends :
                            Cardinality({f \in ends : f < e}) = k - 1
          IN  [k \in 1..Cardinality(ends) |->
                  SubSeq(head, IF k = 1 THEN 1 ELSE end(k - 1) + 2, end(k) - 1)]
          : head \in {str}, ends \in {Occurrences(CRLF, str)}})

StartLine(out) == LinesOf(HeadOf(out))[1]
HeaderLines(out) == Tail(LinesOf(HeadOf(out)))

\* The field name and the value of a header line "<Field>: <Value>".
FieldOf(line) == Pick({SubSeq(l, 1, First(<<":"," ">>, l) - 1) : l \in {line}})
ValueOf(line) == Pick({SubSeq(l, First(<<":"," ">>, l) + 2, Len(l)) : l \in {line}})

\* The values of the header lines of a field, in the order of the lines.
ValuesIn(lines, field) ==
    Pick({[i \in DOMAIN sel |-> ValueOf(sel[i])]
          : sel \in {SelectSeq(lines, LAMBDA l : FieldOf(l) = field)}})

FieldValues(out, field) ==
    Pick({ValuesIn(lines, field) : lines \in {HeaderLines(out)}})

\* The value a decimal numeral denotes (-1 when s is no numeral: empty, a
\* character that is no digit, or a leading zero).
RECURSIVE DecimalValueFrom(_, _, _)
DecimalValueFrom(s, i, acc) ==
    IF i > Len(s) THEN acc
    ELSE DecimalValueFrom(s, i + 1,
             acc * 10 + (CHOOSE d \in 0..9 : Digits[d + 1] = s[i]))

DecimalValue(str) ==
    Pick({IF \/ s = <<>>
             \/ \E i \in DOMAIN s : \A d \in DOMAIN Digits : Digits[d] # s[i]
             \/ (Len(s) > 1 /\ s[1] = "0")
          THEN -1
          ELSE DecimalValueFrom(s, 1, 0) : s \in {str}})

\* The canonical names of the five methods.
MethodName(m) ==
    CASE m = HTTP_METHOD_HEAD -> <<"H","E","A","D">>
      [] m = HTTP_METHOD_GET -> <<"G","E","T">>
      [] m = HTTP_METHOD_POST -> <<"P","O","S","T">>
      [] m = HTTP_METHOD_PUT -> <<"P","U","T">>
      [] m = HTTP_METHOD_DELETE -> <<"D","E","L","E","T","E">>

FiveMethods ==
    {HTTP_METHOD_HEAD, HTTP_METHOD_GET, HTTP_METHOD_POST, HTTP_METHOD_PUT,
     HTTP_METHOD_DELETE}

\* ------------------------------------------------------------------ claims
\* C1: setMethod(m) succeeds without an assertion failure for each of the five
\* methods HEAD, GET, POST, PUT and DELETE, and a following getResult() starts
\* with the method's canonical name and one space.
C1_SetMethodAcceptsTheFive ==
    [][\A m \in FiveMethods :
          ReqSetMethod(m) =>
              /\ ~aborted'
              /\ IsPrefix(MethodName(m) \o <<" ">>, HttpRequest_getResult(req)')]_vars

\* k_i=v_i&...&k_n=v_n, with "&" before every pair but the first of all.
RECURSIVE JoinedFrom(_, _)
JoinedFrom(pairs, i) ==
    IF i > Len(pairs) THEN <<>>
    ELSE (IF i > 1 THEN <<"&">> ELSE <<>>) \o pairs[i][1] \o <<"=">> \o pairs[i][2]
         \o JoinedFrom(pairs, i + 1)

\* C7: after n >= 1 add(k_i, v_i) calls, empty keys and values included,
\* getResult() is k_1=v_1&...&k_n=v_n in call order, with one "&" before every
\* pair but the first; with no call it is the empty string.
C7_QueryJoinsInCallOrder ==
    live = "query" =>
        /\ HttpQueryParameter_getResult(mParameter) = JoinedFrom(calls, 1)
        /\ calls = <<>> => HttpQueryParameter_getResult(mParameter) = <<>>
        /\ calls # <<>> =>
              Cardinality(Occurrences(<<"&">>, mParameter)) = Len(calls) - 1
        /\ ret.has => ret.str = JoinedFrom(calls, 1)

C7_Witness ==
    /\ live = "query"
    /\ calls = <<<<<<"a">>, <<"1">>>>, <<<<"b">>, <<"2">>>>>>
    /\ ret.has
    /\ ret.str = <<"a","=","1","&","b","=","2">>

\* A second witness of C7: pairs with an empty key and an empty value.
C7_WitnessEmpty ==
    /\ live = "query"
    /\ calls = <<<<<<>>, <<>>>>, <<<<>>, <<"1">>>>, <<<<"a">>, <<>>>>>>
    /\ mParameter = <<"=","&","=","1","&","a","=">>

\* C9: the first line of a request with one of the five methods M, url u and
\* query q is "<M> <u> HTTP/1.1" when q is empty and "<M> <u>?<q> HTTP/1.1"
\* otherwise, ended by CRLF; a request on which no setter was called has
\* method GET, no url, no header, no body, and is "GET  HTTP/1.1\r\n\r\n".
C9_RequestLine ==
    (live = "request" /\ ~aborted) =>
        LET out == HttpRequest_getResult(req)
            M   == req.mMethod
            u   == req.mUrl
            q   == req.mQuery
        IN  /\ M \in FiveMethods =>
                  /\ q = <<>> =>
                        IsPrefix(MethodName(M) \o <<" ">> \o u \o <<" ","H","T","T","P","/","1",".","1","\r","\n">>, out)
                  /\ q # <<>> =>
                        IsPrefix(MethodName(M) \o <<" ">> \o u \o <<"?">> \o q
                                 \o <<" ","H","T","T","P","/","1",".","1","\r","\n">>, out)
                  /\ (Occurrences(<<"?">>, StartLine(out)) # {}) <=> (q # <<>>)
            /\ fresh =>
                  /\ M = HTTP_METHOD_GET
                  /\ u = <<>>
                  /\ req.mHeadField = <<>>
                  /\ req.mBody = <<>>
                  /\ out = <<"G","E","T"," "," ","H","T","T","P","/","1",".","1","\r","\n","\r","\n">>
            /\ ret.has => ret.str = out

C9_Witness ==
    /\ live = "request"
    /\ ~aborted
    /\ req.mMethod = HTTP_METHOD_POST
    /\ req.mUrl = <<"/","p">>
    /\ req.mQuery = <<"a","=","1","&","b","=","2">>
    /\ ret.has
    /\ StartLine(ret.str) = <<"P","O","S","T"," ","/","p","?","a","=","1","&","b","=","2"," ","H","T","T","P","/","1",".","1">>

\* a is before b in the lexicographic order of the bytes: at the first place
\* where they differ a has the smaller byte, or a ends there.
LexLess(a, b) ==
    \E i \in 1..Len(b) :
        /\ \A j \in 1..(i - 1) : j <= Len(a) /\ a[j] = b[j]
        /\ i > Len(a) \/ CharCode[a[i]] < CharCode[b[i]]

Ascending(out) ==
    LET lines == HeaderLines(out)
    IN  \A i \in DOMAIN lines : \A j \in DOMAIN lines :
            i < j => LexLess(FieldOf(lines[i]), FieldOf(lines[j]))

SameCalls ==
    {calls[i] : i \in DOMAIN calls} = {twinCalls[i] : i \in DOMAIN twinCalls}

\* C2: adding the same header pairs, with distinct fields, to two messages
\* built alike gives byte-identical results whatever the two orders of the
\* addHeadValue calls, and the header lines are in ascending lexicographic
\* order of field name.
C2_HeaderOrderIndependent ==
    /\ SameCalls => MessageResult(Message) = MessageResult(twin)
    /\ Ascending(MessageResult(Message))
    /\ Ascending(MessageResult(twin))

C2_Witness ==
    /\ live = "response"
    /\ Len(calls) = Cardinality(OrderFields)
    /\ SameCalls
    /\ \A i \in DOMAIN calls : calls[i] # twinCalls[i]
    /\ MessageResult(Message) = MessageResult(twin)

\* The decimal digits of the unsigned value hi * 2^16 + lo, by long division.
RECURSIVE UnsignedDigits(_, _)
UnsignedDigits(hi, lo) ==
    IF hi = 0 /\ lo < 10 THEN <<Digits[lo + 1]>>
    ELSE LET t == (hi % 10) * Limb + lo
         IN  UnsignedDigits(hi \div 10, t \div 10) \o <<Digits[(t % 10) + 1]>>

InTable(u) == u.hi = 0 /\ u.lo \in StatusCodes

\* C5: a response whose status is no code of the table serializes to the
\* status line "HTTP/1.1 <code> <unknown-status>", <code> being the decimal
\* form of the unsigned status value.
C5_UnknownStatusLine ==
    (live = "response" /\ ~InTable(rsp.mStatus)) =>
        StartLine(HttpResponse_getResult(rsp))
            = <<"H","T","T","P","/","1",".","1"," ">> \o UnsignedDigits(rsp.mStatus.hi, rsp.mStatus.lo)
              \o <<" ","<","u","n","k","n","o","w","n","-","s","t","a","t","u","s",">">>

\* A response on which no setter was called yet.
C10_FreshResponse ==
    (live = "response" /\ fresh) =>
        LET out == HttpResponse_getResult(rsp)
        IN  /\ Len(HeaderLines(out)) = 1
            /\ HeaderLines(out)[1]
                   = <<"C","o","n","n","e","c","t","i","o","n",":"," ">>
                     \o (IF isKeepAlive THEN <<"K","e","e","p","-","A","l","i","v","e">> ELSE <<"C","l","o","s","e">>)
            /\ BodyOf(out) = <<>>
            /\ Len(rsp.mHeadField) = 1
            /\ rsp.mBody = <<>>
            /\ (isKeepAlive /\ rsp.mStatus = status_ok) =>
                   out = <<"H","T","T","P","/","1",".","1"," ","2","0","0"," ","O","K","\r","\n","C","o","n","n","e","c","t","i","o","n",":"," ","K","e","e","p","-","A","l","i","v","e","\r","\n","\r","\n">>

\* The values of the Connection lines of the response's result.
ConnectionValues == FieldValues(HttpResponse_getResult(rsp), <<"C","o","n","n","e","c","t","i","o","n">>)

\* C10: a freshly constructed response has the one header Connection,
\* "Keep-Alive" when isKeepAlive and "Close" otherwise, and no body; built with
\* the defaults it is "HTTP/1.1 200 OK\r\nConnection: Keep-Alive\r\n\r\n".
\* addHeadValue("Connection", v) replaces the value, and no other operation
\* changes the Connection line.
C10_ConnectionDefault ==
    /\ []C10_FreshResponse
    /\ [][\A v \in Vals :
             RspAddHeadValue(<<"C","o","n","n","e","c","t","i","o","n">>, v) =>
                 ConnectionValues' = <<v>>]_vars
    /\ [][(live = "response"
           /\ ~ \E v \in Vals : RspAddHeadValue(<<"C","o","n","n","e","c","t","i","o","n">>, v)) =>
             ConnectionValues' = ConnectionValues]_vars

C10_Witness ==
    /\ live = "response"
    /\ ~isKeepAlive
    /\ ~fresh
    /\ rsp.mBody # <<>>
    /\ ret.has
    /\ FieldValues(ret.str, <<"C","o","n","n","e","c","t","i","o","n">>) = <<Val(1)>>

\* ---------------------------------------- claims about both message classes
\* What getResult() of the live message returns in the current state.
Out == MessageResult(Message)

IsMessage == live \in {"request", "response"}

\* What a reader finds in that result: the values of the header lines of a
\* field, the body, and the head.
OutValues(field) == FieldValues(Out, field)
OutBody == BodyOf(Out)

SetBodyStep(b) ==
    ReqSetBody(b) \/ ReqSetBodyMove(b) \/ RspSetBody(b) \/ RspSetBodyMove(b)

AddHeadValueStep(field, value) ==
    ReqAddHeadValue(field, value) \/ RspAddHeadValue(field, value)

\* C3: after setBody(b), the empty body included, getResult() has exactly one
\* header line "Content-Length: <n>", n the decimal byte length of b, and the
\* bytes after the blank line are b; this holds for every setBody call, so
\* after several the header and the body are those of the last.
C3_SetBodySetsLength ==
    [][\A b \in Bodies :
          SetBodyStep(b) =>
              \A out \in {Out'} :
                  /\ Len(FieldValues(out, <<"C","o","n","t","e","n","t","-","L","e","n","g","t","h">>)) = 1
                  /\ DecimalValue(FieldValues(out, <<"C","o","n","t","e","n","t","-","L","e","n","g","t","h">>)[1]) = Len(b)
                  /\ BodyOf(out) = b
                  /\ out = HeadOf(out) \o CRLF \o b]_vars

C3_Witness ==
    /\ IsMessage
    /\ ~aborted
    /\ Message.mBody = LongBody
    /\ ret.has
    /\ BodyOf(ret.str) = LongBody
    /\ FieldValues(ret.str, <<"C","o","n","t","e","n","t","-","L","e","n","g","t","h">>) = <<ToStringNat(MaxBodyLen)>>

\* The field names of the header lines.
AllFields ==
    {<<"C","o","n","n","e","c","t","i","o","n">>, <<"C","o","n","t","e","n","t","-","L","e","n","g","t","h">>, <<"C","o","n","t","e","n","t","-","T","y","p","e">>, <<"C","o","o","k","i","e">>, <<"H","o","s","t">>}

\* The values the callers write to a field.
WrittenTo(field) ==
    CASE field = <<"C","o","n","t","e","n","t","-","L","e","n","g","t","h">> ->
             Vals \cup {ToStringNat(Len(b)) : b \in Bodies}
      [] field = <<"C","o","n","t","e","n","t","-","T","y","p","e">> -> ContentTypes
      [] field = <<"C","o","o","k","i","e">> -> Cookies
      [] OTHER -> Vals

\* The step is an operation that sets field to value.
SetsField(field, value) ==
    \/ AddHeadValueStep(field, value)
    \/ field = <<"H","o","s","t">> /\ ReqSetHost(value)
    \/ field = <<"C","o","o","k","i","e">> /\ ReqSetCookie(value)
    \/ field = <<"C","o","n","t","e","n","t","-","T","y","p","e">>
           /\ (ReqSetContentType(value) \/ RspSetContentType(value))
    \/ field = <<"C","o","n","t","e","n","t","-","L","e","n","g","t","h">>
           /\ \E b \in Bodies : DecimalValue(value) = Len(b) /\ SetBodyStep(b)

OneLinePerField ==
    (IsMessage /\ ~aborted) =>
        LET lines == HeaderLines(Out)
        IN  /\ \A i \in DOMAIN lines : \A j \in DOMAIN lines :
                   i # j => FieldOf(lines[i]) # FieldOf(lines[j])
            /\ (live = "response" /\ fresh) =>
                   FieldValues(Out, <<"C","o","n","n","e","c","t","i","o","n">>)
                       = <<IF isKeepAlive THEN <<"K","e","e","p","-","A","l","i","v","e">> ELSE <<"C","l","o","s","e">>>>

\* C4: the result has at most one header line per field name, and its value
\* is the one written by the last operation that set the field (addHeadValue,
\* setHost, setCookie, setContentType, setBody, or the response constructor's
\* Connection default): an operation that sets a field leaves one line with
\* its value, and every other operation leaves the field's lines as they were.
C4_LastWriteWins ==
    /\ []OneLinePerField
    /\ [][\A before \in {HeaderLines(Out)}, after \in {HeaderLines(Out)'} :
             \A field \in AllFields :
                 \A written \in {{value \in WrittenTo(field) :
                                      SetsField(field, value)}} :
                     /\ \A value \in written :
                            ValuesIn(after, field) = <<value>>
                     /\ (IsMessage /\ written = {}) =>
                            ValuesIn(after, field) = ValuesIn(before, field)]_vars

C4_Witness ==
    /\ live = "request"
    /\ ~aborted
    /\ ret.has
    /\ FieldValues(ret.str, <<"H","o","s","t">>) = <<Val(2)>>
    /\ FieldValues(ret.str, <<"C","o","o","k","i","e">>) = <<<<"s","i","d","=","1">>>>
    /\ Len(HeaderLines(ret.str)) = 4

\* C6: addHeadValue("Content-Length", v) after setBody(b) makes the one
\* Content-Length line carry v while the body stays b; a later setBody(b2)
\* makes it carry the length of b2; no other operation changes the line. So
\* the line carries what the most recent of the two operations wrote.
C6_ContentLengthOverride ==
    [][\A before \in {OutValues(<<"C","o","n","t","e","n","t","-","L","e","n","g","t","h">>)},
          after \in {OutValues(<<"C","o","n","t","e","n","t","-","L","e","n","g","t","h">>)'} :
          /\ \A v \in Vals :
                 AddHeadValueStep(<<"C","o","n","t","e","n","t","-","L","e","n","g","t","h">>, v) =>
                     /\ after = <<v>>
                     /\ OutBody' = OutBody
                     /\ OutBody' = Message.mBody
          /\ \A b \in Bodies :
                 SetBodyStep(b) =>
                     /\ Len(after) = 1
                     /\ DecimalValue(after[1]) = Len(b)
          /\ (/\ IsMessage
              /\ ~ \E b \in Bodies : SetBodyStep(b)
              /\ ~ \E v \in Vals : AddHeadValueStep(<<"C","o","n","t","e","n","t","-","L","e","n","g","t","h">>, v)) =>
                 after = before]_vars

\* The declared length is v1 although the body has two bytes.
C6_Witness ==
    /\ IsMessage
    /\ ~aborted
    /\ Message.mBody = <<"h","i">>
    /\ ret.has
    /\ FieldValues(ret.str, <<"C","o","n","t","e","n","t","-","L","e","n","g","t","h">>) = <<Val(1)>>
    /\ BodyOf(ret.str) = <<"h","i">>

\* C8: getResult() changes no field of its builder, returns the serialization
\* of the current state, and returns the same string when called again with no
\* setter in between. (A step that leaves a returned string behind is a
\* getResult() call: every setter drops the string.)
C8_GetResultIsPure ==
    /\ [](ret.has =>
             ret.str = (IF live = "query"
                        THEN HttpQueryParameter_getResult(mParameter) ELSE Out))
    /\ [][ret'.has =>
             /\ UNCHANGED <<mParameter, req, rsp, aborted>>
             /\ ret.has => ret'.str = ret.str]_vars

C8_Witness ==
    /\ live = "request"
    /\ ~aborted
    /\ ~fresh
    /\ req.mBody # <<>>
    /\ ret.has
    /\ ret.str = HttpRequest_getResult(req)

====
